---------------------------- MODULE Spec2Model ----------------------------
(***************************************************************************)
(* Model of the speedy_token reward program (src/contract.rs).             *)
(*                                                                         *)
(* State: the game_state account (absent until initialize_token creates    *)
(* it), the token accounts of the reward mint (the vault, owned by the     *)
(* game_state address, and one associated account per wallet), the mint's  *)
(* supply, and the events the program has emitted.  One action per         *)
(* instruction; every instruction runs on a working copy of the accounts   *)
(* which the runtime keeps when the handler returns Ok and discards when   *)
(* it returns an error.                                                    *)
(*                                                                         *)
(* Error kinds are named as in the code.  The specification's names are    *)
(*   ArithmeticOverflow       = InvalidRewardAmount                        *)
(*   InsufficientPoolBalance  = InsufficientVaultBalance                   *)
(*   AlreadyInitialized       = the failure of the `init` constraint       *)
(*                              (here "AccountAlreadyInUse")               *)
(*   NotInitialized           = an account that does not exist failing     *)
(*                              validation (here "AccountNotInitialized")  *)
(*                                                                         *)
(* u64 is modelled by the range 0..U64_MAX; all arithmetic on it is the    *)
(* code's checked arithmetic.  RaceStats.lap_time, RaceStats.score and the *)
(* events' timestamps are read by no computation and are left out.         *)
(***************************************************************************)
EXTENDS Integers, Sequences, FiniteSets, TLC

\* Largest value of the unsigned word.  It stands for 2^64 - 1: a 30-bit word,
\* wide enough for every default rate and for the model checker's integers.
U64_MAX == 1073741823
\* Cap on the number of emitted events.
MaxLog == 2
\* Cap on the number of successful fund_vault calls.
MaxFunds == 2

\* Wallets that sign instructions.
Pubkeys == {"Alice", "Bob"}
\* Owner key of the vault: the game_state address (seeds = [b"game_state"]).
GameStatePda == "game_state"
\* Addresses a new mint keypair may have.
MintKeys == {"mintA", "mintB"}
\* The bump of the game_state address (fixed by the program id, unknown here).
BumpValues == {255}

VARIABLES
    game_state,      \* << >> while the account does not exist, else <<GameState>>
    token_accounts,  \* owner -> amount, for every token account of the mint
    supply,          \* the mint's supply
    event_log,       \* sequence of TokenReward / TokenSpend events
    funds,           \* number of successful fund_vault calls
    vault_out,       \* history: total amount by which the vault has been debited
    op,              \* the last instruction: name, signer and arguments
    result           \* its outcome: "Ok" or the error

vars == <<game_state, token_accounts, supply, event_log, funds, vault_out, op, result>>

------------------------------------------------------------------------------
\* Checked arithmetic (u64::checked_add, checked_mul, checked_div).

Some(v) == [ok |-> TRUE, v |-> v]
None == [ok |-> FALSE, v |-> 0]

wrapping_add(a, b) ==
    IF a <= U64_MAX - b THEN Some(a + b) ELSE Some(a - (U64_MAX - b) - 1)
checked_add(a, b) == IF a <= U64_MAX - b THEN Some(a + b) ELSE None

saturating_mul(a, b) == IF a = 0 \/ b <= U64_MAX \div a THEN Some(a * b) ELSE Some(U64_MAX)
checked_mul(a, b) == IF a = 0 \/ b <= U64_MAX \div a THEN Some(a * b) ELSE None

checked_div(a, b) == IF b = 0 THEN None ELSE Some(a \div b)
unwrap_or(o, d) == IF o.ok THEN o.v ELSE d

\* `x.checked_add(y).ok_or(e)?` applied to a value that may already have failed.
then_add(o, b) == IF o.ok THEN checked_add(o.v, b) ELSE None
then_add_opt(o, p) == IF o.ok /\ p.ok THEN checked_add(o.v, p.v) ELSE None

------------------------------------------------------------------------------
\* Rate tables.

DefaultRates ==
    [race_completion |-> 100000000, race_win |-> 50000000,
     distance_per_100m |-> 500000, obstacle_avoided |-> 200000,
     bonus_collected |-> 500000,
     daily_challenge_easy |-> 50000000, daily_challenge_medium |-> 100000000,
     daily_challenge_hard |-> 200000000,
     tournament_participation |-> 100000000, tournament_winner |-> 1000000000,
     welcome_bonus |-> 100000000,
     staking_per_hour_common |-> 1000000, staking_per_hour_rare |-> 3000000,
     staking_per_hour_epic |-> 10000000, staking_per_hour_legendary |-> 25000000]

RateFields == DOMAIN DefaultRates

\* Tables an admin may install with update_token_rates: every rate zero, and
\* every rate the largest word.
ZeroRates == [f \in RateFields |-> 0]
HugeRates == [f \in RateFields |-> U64_MAX]
NewRates == {ZeroRates, HugeRates}

------------------------------------------------------------------------------
\* Instruction arguments.

ChallengeDifficulty == {"Easy", "Medium", "Hard"}
TournamentPlacement == {"Participation", "Winner"}
CarRarity == {"Common", "Rare", "Epic", "Legendary"}
SpendType == {"TournamentEntry", "CarUpgrade", "CarCustomization", "StakingBoost"}

RaceStats(id, c, w, d, o, b) ==
    [race_id |-> id, completed |-> c, won |-> w, distance |-> d,
     obstacles_avoided |-> o, bonus_boxes_collected |-> b]

\* Race results callers submit: the documented example, a race that earns
\* nothing, and results that reach each checked operation of the formula.
ExampleRace == RaceStats(1, TRUE, TRUE, 250, 3, 2)
EmptyRace == RaceStats(2, FALSE, FALSE, 99, 0, 0)
RaceInputs ==
    {ExampleRace, EmptyRace,
     RaceStats(1, TRUE, FALSE, 100, 0, 0),
     RaceStats(2, FALSE, TRUE, 0, 0, 0),
     RaceStats(1, FALSE, FALSE, 250, 0, 0),
     RaceStats(2, FALSE, FALSE, 100, 1, 0),
     RaceStats(1, FALSE, FALSE, 0, 3, 0),
     RaceStats(2, FALSE, FALSE, 0, 1, 1),
     RaceStats(1, FALSE, FALSE, 0, 0, 2),
     RaceStats(2, FALSE, FALSE, U64_MAX, 0, 0)}

HoursInputs == {0, 10, U64_MAX}
FundAmounts == {1000, U64_MAX}
SpendAmounts == {100000000, U64_MAX}
MintAmounts == {U64_MAX}

------------------------------------------------------------------------------
\* Reward computation.

\* The distance bonus counted per started, not per completed, 100 m.
RaceReward_ceil(rates, race_stats) ==
    LET t0 == Some(0)
        t1 == IF race_stats.completed THEN then_add(t0, rates.race_completion) ELSE t0
        t2 == IF race_stats.won THEN then_add(t1, rates.race_win) ELSE t1
        distance_hundreds == (race_stats.distance + 99) \div 100
        distance_bonus == checked_mul(distance_hundreds, rates.distance_per_100m)
        t3 == then_add_opt(t2, distance_bonus)
        obstacle_bonus == checked_mul(race_stats.obstacles_avoided, rates.obstacle_avoided)
        t4 == then_add_opt(t3, obstacle_bonus)
        bonus_reward == checked_mul(race_stats.bonus_boxes_collected, rates.bonus_collected)
    IN  then_add_opt(t4, bonus_reward)

\* award_race_tokens, the computation of total_reward.
RaceReward(rates, race_stats) ==
    LET t0 == Some(0)
        t1 == IF race_stats.completed THEN then_add(t0, rates.race_completion) ELSE t0
        t2 == IF race_stats.won THEN then_add(t1, rates.race_win) ELSE t1
        distance_hundreds == unwrap_or(checked_div(race_stats.distance, 100), 0)
        distance_bonus == checked_mul(distance_hundreds, rates.distance_per_100m)
        t3 == then_add_opt(t2, distance_bonus)
        obstacle_bonus == checked_mul(race_stats.obstacles_avoided, rates.obstacle_avoided)
        t4 == then_add_opt(t3, obstacle_bonus)
        bonus_reward == checked_mul(race_stats.bonus_boxes_collected, rates.bonus_collected)
    IN  then_add_opt(t4, bonus_reward)

\* The challenge lookup with the Medium and Hard arms exchanged.
ChallengeReward_swapped(rates, challenge_difficulty) ==
    CASE challenge_difficulty = "Easy" -> rates.daily_challenge_easy
      [] challenge_difficulty = "Medium" -> rates.daily_challenge_hard
      [] challenge_difficulty = "Hard" -> rates.daily_challenge_medium

ChallengeReward(rates, challenge_difficulty) ==
    CASE challenge_difficulty = "Easy" -> rates.daily_challenge_easy
      [] challenge_difficulty = "Medium" -> rates.daily_challenge_medium
      [] challenge_difficulty = "Hard" -> rates.daily_challenge_hard

TournamentReward(rates, placement) ==
    CASE placement = "Participation" -> rates.tournament_participation
      [] placement = "Winner" -> rates.tournament_winner

HourlyRate(rates, car_rarity) ==
    CASE car_rarity = "Common" -> rates.staking_per_hour_common
      [] car_rarity = "Rare" -> rates.staking_per_hour_rare
      [] car_rarity = "Epic" -> rates.staking_per_hour_epic
      [] car_rarity = "Legendary" -> rates.staking_per_hour_legendary

StakingReward(rates, car_rarity, hours_staked) ==
    checked_mul(HourlyRate(rates, car_rarity), hours_staked)

------------------------------------------------------------------------------
\* The accounts an instruction works on, and its outcome.

Accounts ==
    [game_state |-> game_state, token_accounts |-> token_accounts,
     supply |-> supply, event_log |-> event_log]

Ok(st) == [res |-> "Ok", st |-> st]
Err(e, st) == [res |-> e, st |-> st]

HasTokenAccount(st, owner) == owner \in DOMAIN st.token_accounts
Amount(st, owner) == st.token_accounts[owner]
Exists(st) == Len(st.game_state) = 1
GS(st) == st.game_state[1]

\* anchor_spl::token::transfer: the token program refuses a debit larger than
\* the source's amount.
transfer_credit_only(st, from, to, amount) ==
    Ok([st EXCEPT !.token_accounts[to] = @ + amount])
transfer(st, from, to, amount) ==
    IF Amount(st, from) < amount THEN Err("InsufficientFunds", st)
    ELSE IF from = to THEN Ok(st)
    ELSE Ok([st EXCEPT !.token_accounts[from] = @ - amount,
                       !.token_accounts[to] = @ + amount])

\* anchor_spl::token::burn: removes amount from the holder and from the supply.
burn_supply_only(st, from, amount) ==
    IF Amount(st, from) < amount THEN Err("InsufficientFunds", st)
    ELSE Ok([st EXCEPT !.supply = @ - amount])
burn_saturating(st, from, amount) ==
    LET taken == IF Amount(st, from) < amount THEN Amount(st, from) ELSE amount IN
    Ok([st EXCEPT !.token_accounts[from] = @ - taken, !.supply = @ - taken])
burn(st, from, amount) ==
    IF Amount(st, from) < amount THEN Err("InsufficientFunds", st)
    ELSE Ok([st EXCEPT !.token_accounts[from] = @ - amount,
                       !.supply = @ - amount])

\* emit!: the event is written to the transaction's log.
emit_nothing(st, event) == st
emit(st, event) == [st EXCEPT !.event_log = Append(@, event)]

TokenReward(player, amount, reward_type, race_id) ==
    [event |-> "TokenReward", player |-> player, amount |-> amount,
     reward_type |-> reward_type, race_id |-> race_id]

TokenSpend(player, amount, spend_type) ==
    [event |-> "TokenSpend", player |-> player, amount |-> amount,
     spend_type |-> spend_type]

------------------------------------------------------------------------------
\* Account validation (#[derive(Accounts)]), run before the handler.

\* `init` on game_state: creating an account that exists already fails.
InitializeToken_no_init_check(st) == Ok(st)
InitializeToken(st) ==
    IF Exists(st) THEN Err("AccountAlreadyInUse", st) ELSE Ok(st)

\* game_state must exist; authority_token_account must be the signer's
\* existing associated token account.
FundVault(st, authority) ==
    IF ~Exists(st) THEN Err("AccountNotInitialized", st)
    ELSE IF ~HasTokenAccount(st, authority) THEN Err("AccountNotInitialized", st)
    ELSE Ok(st)

\* The validation with init_if_needed on game_state as well: an absent
\* game_state is created zeroed, with an empty vault.
AwardTokens_init_if_needed(st, player) ==
    LET s1 == IF Exists(st) THEN st
              ELSE [st EXCEPT
                     !.game_state = <<[authority |-> "none", token_mint |-> "none",
                                       vault |-> <<GameStatePda, "none">>,
                                       total_distributed |-> 0,
                                       token_rates |-> ZeroRates, bump |-> 0,
                                       is_initialized |-> FALSE]>>,
                     !.token_accounts = (GameStatePda :> 0)]
    IN  IF HasTokenAccount(s1, player) THEN Ok(s1)
        ELSE Ok([s1 EXCEPT !.token_accounts = (player :> 0) @@ @])

\* game_state must exist; player_token_account is created empty if absent
\* (init_if_needed).
AwardTokens(st, player) ==
    IF ~Exists(st) THEN Err("AccountNotInitialized", st)
    ELSE IF HasTokenAccount(st, player) THEN Ok(st)
    ELSE Ok([st EXCEPT !.token_accounts = (player :> 0) @@ @])

SpendTokens(st, player) ==
    IF ~Exists(st) THEN Err("AccountNotInitialized", st)
    ELSE IF ~HasTokenAccount(st, player) THEN Err("AccountNotInitialized", st)
    ELSE Ok(st)

UpdateGameState(st) ==
    IF ~Exists(st) THEN Err("AccountNotInitialized", st) ELSE Ok(st)

------------------------------------------------------------------------------
\* Instruction handlers: each maps the accounts to an outcome.

initialize_token(st0, authority, token_mint, bump) ==
    LET a == InitializeToken(st0) IN
    IF a.res # "Ok" THEN a
    ELSE Ok([a.st EXCEPT
            !.game_state = <<[authority |-> authority,
                              token_mint |-> token_mint,
                              vault |-> <<GameStatePda, token_mint>>,
                              total_distributed |-> 0,
                              token_rates |-> DefaultRates,
                              bump |-> bump,
                              is_initialized |-> TRUE]>>,
            !.token_accounts = (GameStatePda :> 0),
            !.supply = 0])

\* require!(authority.key() == game_state.authority, Unauthorized)
require_authority_skipped(st, authority) == TRUE
require_authority(st, authority) == authority = GS(st).authority

fund_vault(st0, authority, amount) ==
    LET a == FundVault(st0, authority) IN
    IF a.res # "Ok" THEN a
    ELSE IF ~require_authority(a.st, authority) THEN Err("Unauthorized", a.st)
    ELSE transfer(a.st, authority, GameStatePda, amount)

\* Signs for the vault with the game_state seeds and moves amount to the player.
transfer_tokens_from_vault(st, player, amount) ==
    transfer(st, GameStatePda, player, amount)

\* require!(vault.amount >= reward, InsufficientVaultBalance)
vault_check_skipped(st, reward) == TRUE
vault_check_strict(st, reward) == Amount(st, GameStatePda) > reward
vault_check(st, reward) == Amount(st, GameStatePda) >= reward

\* The award without the update of total_distributed.
pay_reward_no_count(st, player, reward, reward_type, race_id) ==
    IF ~vault_check(st, reward) THEN Err("InsufficientVaultBalance", st)
    ELSE LET t == transfer_tokens_from_vault(st, player, reward) IN
         IF t.res # "Ok" THEN t
         ELSE Ok(emit(t.st, TokenReward(player, reward, reward_type, race_id)))

\* The award with an unchecked addition on total_distributed.
pay_reward_wrapping(st, player, reward, reward_type, race_id) ==
    IF ~vault_check(st, reward) THEN Err("InsufficientVaultBalance", st)
    ELSE LET t == transfer_tokens_from_vault(st, player, reward) IN
         IF t.res # "Ok" THEN t
         ELSE LET total == wrapping_add(GS(t.st).total_distributed, reward) IN
              Ok(emit([t.st EXCEPT !.game_state[1].total_distributed = total.v],
                      TokenReward(player, reward, reward_type, race_id)))

\* The award with a replay guard: refused when the log already holds a
\* reward of the same kind and id for the player.
pay_reward_once(st, player, reward, reward_type, race_id) ==
    IF \E i \in 1..Len(st.event_log) :
          /\ st.event_log[i].event = "TokenReward"
          /\ st.event_log[i].player = player
          /\ st.event_log[i].reward_type = reward_type
          /\ st.event_log[i].race_id = race_id
    THEN Err("AlreadyClaimed", st)
    ELSE IF ~vault_check(st, reward) THEN Err("InsufficientVaultBalance", st)
    ELSE LET t == transfer_tokens_from_vault(st, player, reward) IN
         IF t.res # "Ok" THEN t
         ELSE LET total == checked_add(GS(t.st).total_distributed, reward) IN
              IF ~total.ok THEN Err("InvalidRewardAmount", t.st)
              ELSE Ok(emit([t.st EXCEPT !.game_state[1].total_distributed = total.v],
                           TokenReward(player, reward, reward_type, race_id)))

\* The part the five award handlers share: the vault check, the transfer,
\* the update of total_distributed and the event.
pay_reward(st, player, reward, reward_type, race_id) ==
    IF ~vault_check(st, reward) THEN Err("InsufficientVaultBalance", st)
    ELSE LET t == transfer_tokens_from_vault(st, player, reward) IN
         IF t.res # "Ok" THEN t
         ELSE LET total == checked_add(GS(t.st).total_distributed, reward) IN
              IF ~total.ok THEN Err("InvalidRewardAmount", t.st)
              ELSE Ok(emit([t.st EXCEPT !.game_state[1].total_distributed = total.v],
                           TokenReward(player, reward, reward_type, race_id)))

award_race_tokens(st0, player, race_stats) ==
    LET a == AwardTokens(st0, player) IN
    IF a.res # "Ok" THEN a
    ELSE LET total_reward == RaceReward(GS(a.st).token_rates, race_stats) IN
         IF ~total_reward.ok THEN Err("InvalidRewardAmount", a.st)
         ELSE pay_reward(a.st, player, total_reward.v, "RaceCompletion",
                         race_stats.race_id)

award_challenge_tokens(st0, player, challenge_difficulty, challenge_id) ==
    LET a == AwardTokens(st0, player) IN
    IF a.res # "Ok" THEN a
    ELSE pay_reward(a.st, player,
                    ChallengeReward(GS(a.st).token_rates, challenge_difficulty),
                    "DailyChallenge", challenge_id)

award_tournament_tokens(st0, player, placement, tournament_id) ==
    LET a == AwardTokens(st0, player) IN
    IF a.res # "Ok" THEN a
    ELSE pay_reward(a.st, player,
                    TournamentReward(GS(a.st).token_rates, placement),
                    "Tournament", tournament_id)

award_welcome_bonus(st0, player) ==
    LET a == AwardTokens(st0, player) IN
    IF a.res # "Ok" THEN a
    ELSE pay_reward(a.st, player, GS(a.st).token_rates.welcome_bonus,
                    "WelcomeBonus", 0)

award_staking_tokens(st0, player, car_rarity, hours_staked, car_id) ==
    LET a == AwardTokens(st0, player) IN
    IF a.res # "Ok" THEN a
    ELSE LET reward_amount == StakingReward(GS(a.st).token_rates, car_rarity, hours_staked) IN
         IF ~reward_amount.ok THEN Err("InvalidRewardAmount", a.st)
         ELSE pay_reward(a.st, player, reward_amount.v, "Staking", car_id)

\* The spend with the event emitted before the burn.
spend_tokens_emit_first(st0, player, amount, spend_type) ==
    LET a == SpendTokens(st0, player) IN
    IF a.res # "Ok" THEN a
    ELSE LET e == emit(a.st, TokenSpend(player, amount, spend_type))
             b == burn(e, player, amount)
         IN b

\* The spend taking the tokens from the vault instead of the player.
spend_tokens_from_vault(st0, player, amount, spend_type) ==
    LET a == SpendTokens(st0, player) IN
    IF a.res # "Ok" THEN a
    ELSE LET b == burn(a.st, GameStatePda, amount) IN
         IF b.res # "Ok" THEN b
         ELSE Ok(emit(b.st, TokenSpend(player, amount, spend_type)))

\* The spend without its event.
spend_tokens_no_emit(st0, player, amount, spend_type) ==
    LET a == SpendTokens(st0, player) IN
    IF a.res # "Ok" THEN a
    ELSE burn(a.st, player, amount)

spend_tokens(st0, player, amount, spend_type) ==
    LET a == SpendTokens(st0, player) IN
    IF a.res # "Ok" THEN a
    ELSE LET b == burn(a.st, player, amount) IN
         IF b.res # "Ok" THEN b
         ELSE Ok(emit(b.st, TokenSpend(player, amount, spend_type)))

\* The update that replaces every rate but welcome_bonus.
update_token_rates_keeps_welcome(st0, authority, new_rates) ==
    LET a == UpdateGameState(st0) IN
    IF a.res # "Ok" THEN a
    ELSE IF ~require_authority(a.st, authority) THEN Err("Unauthorized", a.st)
    ELSE Ok([a.st EXCEPT !.game_state[1].token_rates =
                [new_rates EXCEPT !.welcome_bonus = GS(a.st).token_rates.welcome_bonus]])

update_token_rates(st0, authority, new_rates) ==
    LET a == UpdateGameState(st0) IN
    IF a.res # "Ok" THEN a
    ELSE IF ~require_authority(a.st, authority) THEN Err("Unauthorized", a.st)
    ELSE Ok([a.st EXCEPT !.game_state[1].token_rates = new_rates])

------------------------------------------------------------------------------
\* The runtime: an instruction that returns Ok has its account changes
\* committed; one that returns an error has them discarded.  Log output is
\* not taken back.

commit_always(pre, out) == out.st
commit(pre, out) ==
    IF out.res = "Ok" THEN out.st
    ELSE [pre EXCEPT !.event_log = out.st.event_log]

\* What the vault holds in a set of accounts (nothing before it exists).
VaultOf(st) ==
    IF GameStatePda \in DOMAIN st.token_accounts
    THEN st.token_accounts[GameStatePda] ELSE 0

Apply(instruction, out) ==
    LET new == commit(Accounts, out) IN
    /\ Len(new.event_log) <= MaxLog
    /\ vault_out' = IF VaultOf(new) < VaultOf(Accounts)
                    THEN vault_out + (VaultOf(Accounts) - VaultOf(new))
                    ELSE vault_out
    /\ game_state' = new.game_state
    /\ token_accounts' = new.token_accounts
    /\ supply' = new.supply
    /\ event_log' = new.event_log
    /\ op' = instruction
    /\ result' = out.res

------------------------------------------------------------------------------
\* Actions: one per instruction, plus the mint authority minting outside
\* the program.  Each takes the sets its arguments are drawn from.

Init ==
    /\ game_state = << >>
    /\ token_accounts = << >>
    /\ supply = 0
    /\ event_log = << >>
    /\ funds = 0
    /\ vault_out = 0
    /\ op = [name |-> "none"]
    /\ result = "Ok"

InitializeTokenIx(authorities, mints) ==
    \E authority \in authorities, token_mint \in mints, bump \in BumpValues :
        /\ Apply([name |-> "initialize_token", caller |-> authority,
                  token_mint |-> token_mint, bump |-> bump],
                 initialize_token(Accounts, authority, token_mint, bump))
        /\ UNCHANGED funds

FundVaultIx(amounts) ==
    \E authority \in Pubkeys, amount \in amounts :
        LET out == fund_vault(Accounts, authority, amount) IN
        /\ out.res = "Ok" => funds < MaxFunds
        /\ Apply([name |-> "fund_vault", caller |-> authority, amount |-> amount], out)
        /\ funds' = IF out.res = "Ok" THEN funds + 1 ELSE funds

AwardRaceTokensIx(inputs) ==
    \E player \in Pubkeys, race_stats \in inputs :
        /\ Apply([name |-> "award_race_tokens", caller |-> player,
                  race_stats |-> race_stats],
                 award_race_tokens(Accounts, player, race_stats))
        /\ UNCHANGED funds

AwardChallengeTokensIx(difficulties, ids) ==
    \E player \in Pubkeys, difficulty \in difficulties, id \in ids :
        /\ Apply([name |-> "award_challenge_tokens", caller |-> player,
                  challenge_difficulty |-> difficulty, id |-> id],
                 award_challenge_tokens(Accounts, player, difficulty, id))
        /\ UNCHANGED funds

AwardTournamentTokensIx(placements, ids) ==
    \E player \in Pubkeys, placement \in placements, id \in ids :
        /\ Apply([name |-> "award_tournament_tokens", caller |-> player,
                  placement |-> placement, id |-> id],
                 award_tournament_tokens(Accounts, player, placement, id))
        /\ UNCHANGED funds

AwardWelcomeBonusIx ==
    \E player \in Pubkeys :
        /\ Apply([name |-> "award_welcome_bonus", caller |-> player],
                 award_welcome_bonus(Accounts, player))
        /\ UNCHANGED funds

AwardStakingTokensIx(rarities, hours_inputs, ids) ==
    \E player \in Pubkeys, car_rarity \in rarities, hours \in hours_inputs, id \in ids :
        /\ Apply([name |-> "award_staking_tokens", caller |-> player,
                  car_rarity |-> car_rarity, hours_staked |-> hours, id |-> id],
                 award_staking_tokens(Accounts, player, car_rarity, hours, id))
        /\ UNCHANGED funds

SpendTokensIx(spend_types) ==
    \E player \in Pubkeys, amount \in SpendAmounts, spend_type \in spend_types :
        /\ Apply([name |-> "spend_tokens", caller |-> player, amount |-> amount,
                  spend_type |-> spend_type],
                 spend_tokens(Accounts, player, amount, spend_type))
        /\ UNCHANGED funds

UpdateTokenRatesIx(tables) ==
    \E authority \in Pubkeys, new_rates \in tables :
        /\ Apply([name |-> "update_token_rates", caller |-> authority,
                  new_rates |-> new_rates],
                 update_token_rates(Accounts, authority, new_rates))
        /\ UNCHANGED funds

\* The mint authority (the wallet that initialized, mint::authority = authority)
\* mints to its own associated token account with the token program; the
\* supply is a u64 and the token program refuses to overflow it.
MintTo ==
    \E amount \in MintAmounts :
        /\ Exists(Accounts)
        /\ supply <= U64_MAX - amount
        /\ LET authority == GS(Accounts).authority
               held == IF authority \in DOMAIN token_accounts
                       THEN token_accounts[authority] ELSE 0
           IN /\ token_accounts' = (authority :> held + amount) @@ token_accounts
              /\ op' = [name |-> "mint_to", caller |-> authority, amount |-> amount]
        /\ supply' = supply + amount
        /\ result' = "Ok"
        /\ UNCHANGED <<game_state, event_log, funds, vault_out>>

\* Every instruction, each with a few arguments; Alice deploys.
Next ==
    \/ InitializeTokenIx({"Alice"}, {"mintA"})
    \/ FundVaultIx(FundAmounts)
    \/ AwardRaceTokensIx({ExampleRace})
    \/ AwardChallengeTokensIx({"Hard"}, {1})
    \/ AwardTournamentTokensIx({"Winner"}, {1})
    \/ AwardWelcomeBonusIx
    \/ AwardStakingTokensIx({"Legendary"}, {10, U64_MAX}, {1})
    \/ SpendTokensIx({"CarUpgrade"})
    \/ UpdateTokenRatesIx({HugeRates})
    \/ MintTo

Spec == Init /\ [][Next]_vars

\* Initialization by any wallet with any mint, and enough of the rest to
\* change what initialization wrote.
NextInit ==
    \/ InitializeTokenIx(Pubkeys, MintKeys)
    \/ MintTo
    \/ FundVaultIx({U64_MAX})
    \/ UpdateTokenRatesIx(NewRates)
    \/ AwardWelcomeBonusIx

SpecInit == Init /\ [][NextInit]_vars

\* The race award over every race input and rate table.
NextRace ==
    \/ InitializeTokenIx({"Alice"}, {"mintA"})
    \/ MintTo
    \/ FundVaultIx({U64_MAX})
    \/ UpdateTokenRatesIx(NewRates)
    \/ AwardRaceTokensIx(RaceInputs)

SpecRace == Init /\ [][NextRace]_vars

\* The staking award over every rarity, hours input and rate table.
NextStaking ==
    \/ InitializeTokenIx({"Alice"}, {"mintA"})
    \/ MintTo
    \/ FundVaultIx({U64_MAX})
    \/ UpdateTokenRatesIx(NewRates)
    \/ AwardStakingTokensIx(CarRarity, HoursInputs, {1})

SpecStaking == Init /\ [][NextStaking]_vars

\* Correlating ids a caller may supply.
IdInputs == {1, 2}

\* The three awards that look their amount up in the rate table, over every
\* difficulty, placement and id, at the default rates and after an update.
NextLookup ==
    \/ InitializeTokenIx({"Alice"}, {"mintA"})
    \/ MintTo
    \/ FundVaultIx({U64_MAX})
    \/ UpdateTokenRatesIx({HugeRates})
    \/ AwardChallengeTokensIx(ChallengeDifficulty, IdInputs)
    \/ AwardTournamentTokensIx(TournamentPlacement, IdInputs)
    \/ AwardWelcomeBonusIx

SpecLookup == Init /\ [][NextLookup]_vars

\* Awards that compute the amount 0 - from a zero rate, a race that earns
\* nothing, or zero hours staked - next to awards that compute more.
NextZero ==
    \/ InitializeTokenIx({"Alice"}, {"mintA"})
    \/ MintTo
    \/ FundVaultIx({1000})
    \/ UpdateTokenRatesIx({ZeroRates})
    \/ AwardRaceTokensIx({EmptyRace, ExampleRace})
    \/ AwardChallengeTokensIx({"Easy"}, {1})
    \/ AwardWelcomeBonusIx
    \/ AwardStakingTokensIx({"Common"}, {0, 10}, {1})

SpecZero == Init /\ [][NextZero]_vars

\* The five awards asked for again and again by either wallet, each with one
\* fixed id, against a vault that holds two welcome bonuses or the largest
\* word.
NextReplay ==
    \/ InitializeTokenIx({"Alice"}, {"mintA"})
    \/ MintTo
    \/ FundVaultIx({200000000, U64_MAX})
    \/ UpdateTokenRatesIx({HugeRates})
    \/ AwardRaceTokensIx({ExampleRace})
    \/ AwardChallengeTokensIx({"Medium"}, {1})
    \/ AwardTournamentTokensIx({"Participation"}, {1})
    \/ AwardWelcomeBonusIx
    \/ AwardStakingTokensIx({"Common"}, {10}, {1})

SpecReplay == Init /\ [][NextReplay]_vars

------------------------------------------------------------------------------
\* What the properties below observe.

Initialized == Len(game_state) = 1
Authority == game_state[1].authority
Rates == game_state[1].token_rates
TotalDistributed == IF Initialized THEN game_state[1].total_distributed ELSE 0
VaultAmount == VaultOf(Accounts)
BalanceIn(accounts, p) == IF p \in DOMAIN accounts THEN accounts[p] ELSE 0
Balance(p) == BalanceIn(token_accounts, p)

AwardNames ==
    {"award_race_tokens", "award_challenge_tokens", "award_tournament_tokens",
     "award_welcome_bonus", "award_staking_tokens"}
IsAward(o) == o.name \in AwardNames
Succeeded(names) == op.name \in names /\ result = "Ok"

\* The accounts and the log, without the record of the last instruction.
ledger == <<game_state, token_accounts, supply, event_log>>

RECURSIVE SumRewards(_)
SumRewards(log) ==
    IF log = << >> THEN 0
    ELSE (IF Head(log).event = "TokenReward" THEN Head(log).amount ELSE 0)
         + SumRewards(Tail(log))

\* a * b lies outside the unsigned range.
ProductExceeds(a, b) == a > 0 /\ b > U64_MAX \div a
\* acc plus the terms, added left to right, leaves the unsigned range.
RECURSIVE SumExceeds(_, _)
SumExceeds(acc, terms) ==
    IF terms = << >> THEN FALSE
    ELSE IF Head(terms) > U64_MAX - acc THEN TRUE
    ELSE SumExceeds(acc + Head(terms), Tail(terms))

\* The race formula as the specification writes it, over the integers.
RaceFormula(rates, s) ==
    (IF s.completed THEN rates.race_completion ELSE 0)
    + (IF s.won THEN rates.race_win ELSE 0)
    + (s.distance \div 100) * rates.distance_per_100m
    + s.obstacles_avoided * rates.obstacle_avoided
    + s.bonus_boxes_collected * rates.bonus_collected

\* Some product or partial sum of the race formula leaves the unsigned range.
RaceOverflows(rates, s) ==
    \/ ProductExceeds(s.distance \div 100, rates.distance_per_100m)
    \/ ProductExceeds(s.obstacles_avoided, rates.obstacle_avoided)
    \/ ProductExceeds(s.bonus_boxes_collected, rates.bonus_collected)
    \/ SumExceeds(0, <<IF s.completed THEN rates.race_completion ELSE 0,
                       IF s.won THEN rates.race_win ELSE 0,
                       (s.distance \div 100) * rates.distance_per_100m,
                       s.obstacles_avoided * rates.obstacle_avoided,
                       s.bonus_boxes_collected * rates.bonus_collected>>)

------------------------------------------------------------------------------
\* C1 (solvency).  In every step the vault's amount changes by exactly the
\* amount of a successful fund_vault (added) or the amount of a successful
\* award (subtracted), and by nothing else; it is never negative.  Summed
\* over a run: the vault holds its initial amount plus all funding minus all
\* payouts.
C1_Solvency ==
    [][/\ VaultAmount' >= 0
       /\ VaultAmount' =
            VaultAmount
            + (IF op'.name = "fund_vault" /\ result' = "Ok" THEN op'.amount ELSE 0)
            - (IF IsAward(op') /\ result' = "Ok"
               THEN event_log'[Len(event_log')].amount ELSE 0)]_vars

\* A payout of a positive amount from a funded vault has happened.
C1_Witness ==
    /\ Succeeded(AwardNames)
    /\ funds >= 1
    /\ event_log[Len(event_log)].amount > 0
    /\ VaultAmount = U64_MAX - event_log[Len(event_log)].amount

\* C2 (counter and log).  A successful award that moves A out of the vault
\* adds exactly A to total_distributed and appends exactly one TokenReward of
\* amount A; a failed award changes neither.
C2_CounterLogConsistency ==
    [][IsAward(op') =>
        IF result' = "Ok"
        THEN LET A == VaultAmount - VaultAmount' IN
             /\ TotalDistributed' = TotalDistributed + A
             /\ Len(event_log') = Len(event_log) + 1
             /\ SubSeq(event_log', 1, Len(event_log)) = event_log
             /\ event_log'[Len(event_log')].event = "TokenReward"
             /\ event_log'[Len(event_log')].amount = A
        ELSE /\ TotalDistributed' = TotalDistributed
             /\ event_log' = event_log]_vars

\* Both a paying award and a failed award after it have happened.
C2_Witness ==
    /\ IsAward(op) /\ result = "InsufficientVaultBalance"
    /\ TotalDistributed > 0
    /\ Len(event_log) >= 1

C4_OverflowClosure ==
    [][(Initialized /\ op'.name = "award_race_tokens"
        /\ RaceOverflows(Rates, op'.race_stats))
       => /\ result' = "InvalidRewardAmount"
          /\ UNCHANGED ledger]_vars

\* An overflowing race was refused while the vault could have paid a wrapped
\* amount.
C4_Witness ==
    /\ op.name = "award_race_tokens" /\ result = "InvalidRewardAmount"
    /\ RaceOverflows(Rates, op.race_stats)
    /\ VaultAmount = U64_MAX

\* C5 (double initialization).  initialize_token on an initialized ledger
\* fails (the init constraint: the account is already in use) and leaves
\* game_state - authority, mint, vault, rates, counter - as it was.
C5_DoubleInitialization ==
    [][(Initialized /\ op'.name = "initialize_token")
       => /\ result' = "AccountAlreadyInUse"
          /\ UNCHANGED ledger]_vars

\* Another wallet tried to initialize again, with another mint, after the
\* rates had been replaced and rewards paid.
C5_Witness ==
    /\ op.name = "initialize_token" /\ result = "AccountAlreadyInUse"
    /\ op.caller # Authority
    /\ op.token_mint # game_state[1].token_mint
    /\ Rates # DefaultRates
    /\ TotalDistributed > 0

\* The amount an award computes from the rates and its arguments, if the
\* computation succeeds.
ComputedAmount(rates, o) ==
    CASE o.name = "award_race_tokens" -> RaceReward(rates, o.race_stats)
      [] o.name = "award_challenge_tokens" ->
            Some(ChallengeReward(rates, o.challenge_difficulty))
      [] o.name = "award_tournament_tokens" ->
            Some(TournamentReward(rates, o.placement))
      [] o.name = "award_welcome_bonus" -> Some(rates.welcome_bonus)
      [] o.name = "award_staking_tokens" ->
            StakingReward(rates, o.car_rarity, o.hours_staked)

\* The whole amount A moves from the vault to the caller of the step.
Moves(A) ==
    /\ result' = "Ok"
    /\ VaultAmount' = VaultAmount - A
    /\ BalanceIn(token_accounts', op'.caller) = Balance(op'.caller) + A

\* C6 as stated: an award whose amount exceeds the vault fails with
\* InsufficientVaultBalance and nothing moves; an award whose amount the vault
\* covers moves the whole amount to the player.
C6_Original ==
    [][(Initialized /\ IsAward(op') /\ ComputedAmount(Rates, op').ok)
       => LET A == ComputedAmount(Rates, op').v IN
          IF A > VaultAmount
          THEN result' = "InsufficientVaultBalance" /\ UNCHANGED ledger
          ELSE Moves(A)]_vars

\* C6 (solvency precondition), amended.  An award whose amount exceeds the
\* vault fails with InsufficientVaultBalance and nothing moves.  An award
\* whose amount the vault covers moves the whole amount to the player when
\* total_distributed + amount fits in the unsigned range; when it does not,
\* the award fails with InvalidRewardAmount and nothing moves.
C6_SolvencyPrecondition ==
    [][(Initialized /\ IsAward(op') /\ ComputedAmount(Rates, op').ok)
       => LET A == ComputedAmount(Rates, op').v IN
          IF A > VaultAmount
          THEN result' = "InsufficientVaultBalance" /\ UNCHANGED ledger
          ELSE IF A > U64_MAX - TotalDistributed
          THEN result' = "InvalidRewardAmount" /\ UNCHANGED ledger
          ELSE Moves(A)]_vars

\* The vault covered the welcome bonus, and the award failed on the counter.
C6_Witness ==
    /\ op.name = "award_welcome_bonus" /\ result = "InvalidRewardAmount"
    /\ Rates.welcome_bonus <= VaultAmount
    /\ Rates.welcome_bonus > U64_MAX - TotalDistributed

\* C7.  total_distributed equals the sum of the amounts of the TokenReward
\* events in the log, and equals the total amount that has left the vault.
C7_CounterEqualsLogSum ==
    /\ TotalDistributed = SumRewards(event_log)
    /\ TotalDistributed = vault_out

\* Two rewards of positive amounts have been paid.
C7_Witness ==
    /\ Len(event_log) >= 2
    /\ \A i \in 1..2 : event_log[i].event = "TokenReward" /\ event_log[i].amount > 0
    /\ TotalDistributed = event_log[1].amount + event_log[2].amount

\* C8 (race reward formula).  An award_race_tokens whose formula stays in the
\* unsigned range succeeds exactly when the vault covers the formula's value
\* and the counter can take it; when it succeeds, the vault loses, and the
\* player and total_distributed gain, exactly that value.  With the default
\* rates, a race completed and won over 250 m with 3 obstacles and 2 bonuses
\* is worth 152600000.
C8_RaceRewardFormula ==
    [][(Initialized /\ op'.name = "award_race_tokens"
        /\ ~RaceOverflows(Rates, op'.race_stats))
       => LET A == RaceFormula(Rates, op'.race_stats) IN
          /\ (result' = "Ok") <=> (A <= VaultAmount /\ A <= U64_MAX - TotalDistributed)
          /\ result' = "Ok" =>
                /\ VaultAmount' = VaultAmount - A
                /\ BalanceIn(token_accounts', op'.caller) = Balance(op'.caller) + A
                /\ TotalDistributed' = TotalDistributed + A
          /\ (Rates = DefaultRates /\ op'.race_stats = ExampleRace) => A = 152600000]_vars

\* The documented race was paid at the default rates.
C8_Witness ==
    /\ op.name = "award_race_tokens" /\ result = "Ok"
    /\ op.race_stats = ExampleRace
    /\ Rates = DefaultRates
    /\ TotalDistributed = 152600000
    /\ Balance(op.caller) = 152600000
    /\ VaultAmount = U64_MAX - 152600000

\* The rate the specification's table gives a rarity tier.
RarityRate(rates, rarity) ==
    rates[[Common |-> "staking_per_hour_common", Rare |-> "staking_per_hour_rare",
           Epic |-> "staking_per_hour_epic",
           Legendary |-> "staking_per_hour_legendary"][rarity]]

\* C9 (staking reward).  award_staking_tokens whose rate * hours leaves the
\* unsigned range - as it does for hours = U64_MAX at any rate of 2 or more -
\* fails with InvalidRewardAmount and changes nothing.  Otherwise it succeeds
\* exactly when the vault covers rate * hours and the counter can take it, and
\* then pays exactly rate * hours; Legendary at 25000000 for 10 hours pays
\* 250000000.
C9_StakingReward ==
    [][(Initialized /\ op'.name = "award_staking_tokens")
       => LET r == RarityRate(Rates, op'.car_rarity)
              h == op'.hours_staked
          IN  /\ (h = U64_MAX /\ r >= 2) => ProductExceeds(r, h)
              /\ IF ProductExceeds(r, h)
                 THEN result' = "InvalidRewardAmount" /\ UNCHANGED ledger
                 ELSE /\ (result' = "Ok")
                            <=> (r * h <= VaultAmount /\ r * h <= U64_MAX - TotalDistributed)
                      /\ result' = "Ok" =>
                            /\ VaultAmount' = VaultAmount - r * h
                            /\ BalanceIn(token_accounts', op'.caller) = Balance(op'.caller) + r * h
                            /\ TotalDistributed' = TotalDistributed + r * h
                            /\ (r = 25000000 /\ h = 10) =>
                                   event_log'[Len(event_log')].amount = 250000000]_vars

\* Legendary staking for the largest hours value was refused at the default
\* rate while the vault was full.
C9_Witness ==
    /\ op.name = "award_staking_tokens" /\ result = "InvalidRewardAmount"
    /\ op.car_rarity = "Legendary" /\ op.hours_staked = U64_MAX
    /\ Rates = DefaultRates
    /\ VaultAmount = U64_MAX

\* C10 (failure atomicity).  Whenever an instruction returns an error - from
\* validation, a require!, checked arithmetic, or the token program's
\* transfer or burn - the game state, the vault, every balance, the supply
\* and the event log are what they were before it.
C10_FailureAtomicity ==
    [][result' # "Ok" => UNCHANGED ledger]_vars

\* The token program refused a burn larger than the player's balance.
C10_Witness ==
    /\ op.name = "spend_tokens" /\ result = "InsufficientFunds"
    /\ op.caller \in DOMAIN token_accounts
    /\ op.amount > Balance(op.caller)
    /\ Len(event_log) >= 1

\* The instructions of the program.
InstructionNames ==
    AwardNames \cup {"initialize_token", "fund_vault", "spend_tokens",
                     "update_token_rates"}

\* The step appends exactly one event to the log.
AppendsOne ==
    /\ Len(event_log') = Len(event_log) + 1
    /\ SubSeq(event_log', 1, Len(event_log)) = event_log

\* C11 as stated: every instruction that succeeds appends exactly one event.
C11_Original ==
    [][(op'.name \in InstructionNames /\ result' = "Ok") => AppendsOne]_vars

\* C11 (events), amended.  A successful award or spend_tokens appends exactly
\* one event; a successful initialize_token, fund_vault or update_token_rates
\* appends none.
C11_EventPerOperation ==
    [][(op'.name \in InstructionNames /\ result' = "Ok")
       => IF IsAward(op') \/ op'.name = "spend_tokens"
          THEN AppendsOne
          ELSE event_log' = event_log]_vars

\* The vault was funded after a spend had been logged, and the log kept its
\* length.
C11_Witness ==
    /\ op.name = "fund_vault" /\ result = "Ok"
    /\ Len(event_log) >= 1
    /\ event_log[Len(event_log)].event = "TokenSpend"

\* C12 (custody exclusivity).  The vault's amount decreases only in a step
\* that is a successful award, which pays the amount taken to the caller's
\* own token account; fund_vault, update_token_rates and spend_tokens, by the
\* authority or by anyone else, never decrease it, and nor does any failed
\* instruction.
C12_CustodyExclusivity ==
    [][/\ VaultAmount' < VaultAmount
            => /\ IsAward(op') /\ result' = "Ok"
               /\ BalanceIn(token_accounts', op'.caller)
                    = Balance(op'.caller) + (VaultAmount - VaultAmount')
       /\ op'.name \in {"fund_vault", "update_token_rates", "spend_tokens"}
            => VaultAmount' >= VaultAmount]_vars

\* The authority spent from its own balance while the vault held tokens it
\* had paid in, and the vault kept them.
C12_Witness ==
    /\ op.name = "spend_tokens" /\ result = "Ok"
    /\ op.caller = Authority
    /\ VaultAmount >= op.amount
    /\ funds >= 1

\* C13 (spend).  A successful spend_tokens(amount, spend_type) takes exactly
\* amount from the caller's own token account, appends exactly one TokenSpend
\* event with that player, amount and spend type, and leaves the vault,
\* total_distributed, the rates and every other token account as they were.
C13_Spend ==
    [][(op'.name = "spend_tokens" /\ result' = "Ok")
       => /\ BalanceIn(token_accounts', op'.caller) = Balance(op'.caller) - op'.amount
          /\ AppendsOne
          /\ event_log'[Len(event_log')]
                = TokenSpend(op'.caller, op'.amount, op'.spend_type)
          /\ VaultAmount' = VaultAmount
          /\ game_state' = game_state
          /\ DOMAIN token_accounts' = DOMAIN token_accounts
          /\ \A p \in DOMAIN token_accounts \ {op'.caller} :
                token_accounts'[p] = token_accounts[p]]_vars

\* A player other than the authority spent part of a reward while the vault
\* held tokens.
C13_Witness ==
    /\ op.name = "spend_tokens" /\ result = "Ok"
    /\ op.caller # Authority
    /\ Balance(op.caller) > 0
    /\ TotalDistributed > 0
    /\ VaultAmount > 0

\* C14 (rate replacement).  A successful update_token_rates(new_rates) is
\* made by the authority, leaves token_rates equal to new_rates in all 15
\* fields and changes nothing else: authority, mint, vault, counter, token
\* accounts and log stay.  The rates change in no other step, and every
\* successful award pays the amount computed from the table in force, which
\* is therefore the table last installed.
C14_RateReplacement ==
    [][Initialized =>
        /\ (op'.name = "update_token_rates" /\ result' = "Ok")
             => /\ op'.caller = Authority
                /\ DOMAIN op'.new_rates = RateFields
                /\ \A f \in RateFields : Rates'[f] = op'.new_rates[f]
                /\ game_state' = <<[game_state[1] EXCEPT !.token_rates = op'.new_rates]>>
                /\ UNCHANGED <<token_accounts, supply, event_log>>
        /\ Rates' # Rates => (op'.name = "update_token_rates" /\ result' = "Ok")
        /\ (IsAward(op') /\ result' = "Ok")
             => /\ ComputedAmount(Rates, op').ok
                /\ event_log'[Len(event_log')].amount = ComputedAmount(Rates, op').v
                /\ VaultAmount - VaultAmount' = ComputedAmount(Rates, op').v]_vars

\* After the authority replaced the default table, a challenge was paid at
\* the new table's rate, which is not the default one.
C14_Witness ==
    /\ op.name = "award_challenge_tokens" /\ result = "Ok"
    /\ Rates = HugeRates
    /\ event_log[Len(event_log)].amount = HugeRates.daily_challenge_hard
    /\ event_log[Len(event_log)].amount # DefaultRates.daily_challenge_hard

\* C15 (before initialization).  While game_state does not exist, every
\* fund_vault, award, spend_tokens and update_token_rates fails in account
\* validation with AccountNotInitialized and changes nothing: no account is
\* created, nothing moves and nothing is logged.
C15_BeforeInitialization ==
    [][(~Initialized /\ op'.name \in InstructionNames \ {"initialize_token"})
       => /\ result' = "AccountNotInitialized"
          /\ UNCHANGED <<ledger, funds, vault_out>>]_vars

\* A player asked for the welcome bonus before initialization: refused, and
\* no token account was created for the player.
C15_Witness ==
    /\ ~Initialized
    /\ op.name = "award_welcome_bonus" /\ result = "AccountNotInitialized"
    /\ op.caller \notin DOMAIN token_accounts

\* The fields of game_state that identify the deployment.
Identity(gs) == <<gs.token_mint, gs.vault, gs.bump, gs.is_initialized>>

\* C16 (identity immutability).  Once game_state exists it keeps existing,
\* and token_mint, vault, bump and is_initialized never change, whatever the
\* instruction and whoever calls it; the authority is not changed by any
\* instruction of a caller other than the authority.
C16_IdentityImmutability ==
    [][Initialized =>
        /\ Initialized'
        /\ Identity(game_state'[1]) = Identity(game_state[1])
        /\ game_state'[1].is_initialized
        /\ op'.caller # Authority => game_state'[1].authority = Authority]_vars

\* After rewards were paid and the rates replaced, another wallet tried to
\* replace the rates again and was refused.
C16_Witness ==
    /\ Initialized
    /\ op.name = "update_token_rates" /\ result = "Unauthorized"
    /\ op.caller # Authority
    /\ Rates # DefaultRates
    /\ TotalDistributed > 0

\* C17 (the counter is monotone).  total_distributed never decreases from
\* one state to the next, and it changes only in a step that is a successful
\* award: fund_vault, spend_tokens, update_token_rates and every failed
\* instruction leave it as it was.
C17_CounterMonotone ==
    [][/\ TotalDistributed' >= TotalDistributed
       /\ TotalDistributed' # TotalDistributed => (IsAward(op') /\ result' = "Ok")
       /\ (op'.name \in {"fund_vault", "spend_tokens", "update_token_rates"}
            \/ result' # "Ok")
            => TotalDistributed' = TotalDistributed]_vars

\* The vault was funded again with the counter at the largest word, and the
\* counter kept its value.
C17_Witness ==
    /\ op.name = "fund_vault" /\ result = "Ok"
    /\ TotalDistributed = U64_MAX
    /\ VaultAmount > 0

\* C18 (counter overflow atomicity).  An award whose amount the vault covers
\* but whose addition to total_distributed leaves the unsigned range fails
\* with InvalidRewardAmount, and the transfer made before the addition does
\* not take effect.  In every step, what leaves the vault is exactly what is
\* added to total_distributed: neither changes without the other.
C18_CounterOverflowAtomicity ==
    [][/\ (Initialized /\ IsAward(op') /\ ComputedAmount(Rates, op').ok
           /\ ComputedAmount(Rates, op').v <= VaultAmount
           /\ ComputedAmount(Rates, op').v > U64_MAX - TotalDistributed)
            => /\ result' = "InvalidRewardAmount"
               /\ VaultAmount' = VaultAmount
               /\ TotalDistributed' = TotalDistributed
               /\ token_accounts' = token_accounts
       /\ (VaultAmount' < VaultAmount \/ TotalDistributed' # TotalDistributed)
            => TotalDistributed' - TotalDistributed = VaultAmount - VaultAmount'
       /\ vault_out' - vault_out = TotalDistributed' - TotalDistributed]_vars

\* A tournament award the vault covered failed on the counter, and the
\* counter still equals what has left the vault.
C18_Witness ==
    /\ op.name = "award_tournament_tokens" /\ result = "InvalidRewardAmount"
    /\ VaultAmount >= TournamentReward(Rates, op.placement)
    /\ TournamentReward(Rates, op.placement) > U64_MAX - TotalDistributed
    /\ TotalDistributed = vault_out

\* The rate the specification's table gives a difficulty or a placement.
LookupRate(rates, key) ==
    rates[[Easy |-> "daily_challenge_easy", Medium |-> "daily_challenge_medium",
           Hard |-> "daily_challenge_hard",
           Participation |-> "tournament_participation",
           Winner |-> "tournament_winner"][key]]

\* The step pays amount A to its caller and logs it under the tag and id.
PaysAndLogs(A, tag, id) ==
    /\ VaultAmount' = VaultAmount - A
    /\ BalanceIn(token_accounts', op'.caller) = Balance(op'.caller) + A
    /\ AppendsOne
    /\ event_log'[Len(event_log')] = TokenReward(op'.caller, A, tag, id)

\* C19 (lookup rewards).  A successful award_challenge_tokens pays exactly
\* the current rate of its difficulty, a successful award_tournament_tokens
\* exactly the current rate of its placement, a successful
\* award_welcome_bonus exactly the current welcome_bonus rate; the event
\* logged carries the tag of the instruction (DailyChallenge, Tournament,
\* WelcomeBonus) and the id supplied, 0 for the welcome bonus.
C19_LookupRewards ==
    [][result' = "Ok" =>
        /\ op'.name = "award_challenge_tokens"
             => PaysAndLogs(LookupRate(Rates, op'.challenge_difficulty),
                            "DailyChallenge", op'.id)
        /\ op'.name = "award_tournament_tokens"
             => PaysAndLogs(LookupRate(Rates, op'.placement), "Tournament", op'.id)
        /\ op'.name = "award_welcome_bonus"
             => PaysAndLogs(Rates.welcome_bonus, "WelcomeBonus", 0)]_vars

\* A Medium challenge with id 2 was paid 100000000 at the default rates,
\* after another reward with another id.
C19_Witness ==
    /\ op.name = "award_challenge_tokens" /\ result = "Ok"
    /\ op.challenge_difficulty = "Medium" /\ op.id = 2
    /\ Rates = DefaultRates
    /\ Len(event_log) = 2
    /\ event_log[1].race_id = 1
    /\ event_log[2] = TokenReward(op.caller, 100000000, "DailyChallenge", 2)

\* The award is one the specification gives the amount 0: the rate it looks
\* up is zero, no hours were staked, or every term of the race formula is
\* zero (as for a race not completed, not won, under 100 m, with no
\* obstacles and no bonuses).
ZeroAmount(rates, o) ==
    CASE o.name = "award_race_tokens" ->
            ~RaceOverflows(rates, o.race_stats) /\ RaceFormula(rates, o.race_stats) = 0
      [] o.name = "award_challenge_tokens" -> LookupRate(rates, o.challenge_difficulty) = 0
      [] o.name = "award_tournament_tokens" -> LookupRate(rates, o.placement) = 0
      [] o.name = "award_welcome_bonus" -> rates.welcome_bonus = 0
      [] o.name = "award_staking_tokens" ->
            RarityRate(rates, o.car_rarity) = 0 \/ o.hours_staked = 0

\* C20 (zero-amount payout).  An award whose amount is 0 succeeds whatever
\* the vault holds, also nothing; it leaves the vault and total_distributed
\* unchanged and appends one TokenReward of amount 0.
C20_ZeroAmountPayout ==
    [][(Initialized /\ IsAward(op') /\ ZeroAmount(Rates, op'))
       => /\ result' = "Ok"
          /\ VaultAmount' = VaultAmount
          /\ TotalDistributed' = TotalDistributed
          /\ AppendsOne
          /\ event_log'[Len(event_log')].event = "TokenReward"
          /\ event_log'[Len(event_log')].player = op'.caller
          /\ event_log'[Len(event_log')].amount = 0]_vars

\* With an empty vault, a race that earns nothing and then a welcome bonus
\* at a zero rate were both logged with amount 0.
C20_Witness ==
    /\ op.name = "award_welcome_bonus" /\ result = "Ok"
    /\ Rates = ZeroRates
    /\ VaultAmount = 0 /\ TotalDistributed = 0
    /\ Len(event_log) = 2
    /\ event_log[1].reward_type = "RaceCompletion" /\ event_log[1].amount = 0
    /\ event_log[2].reward_type = "WelcomeBonus" /\ event_log[2].amount = 0

\* The tag and the id under which an award is logged.
OpTag(o) ==
    [award_race_tokens |-> "RaceCompletion", award_challenge_tokens |-> "DailyChallenge",
     award_tournament_tokens |-> "Tournament", award_welcome_bonus |-> "WelcomeBonus",
     award_staking_tokens |-> "Staking"][o.name]
OpId(o) ==
    CASE o.name = "award_race_tokens" -> o.race_stats.race_id
      [] o.name = "award_welcome_bonus" -> 0
      [] OTHER -> o.id

\* The log already holds a reward of this kind and id for the caller.
Replayed(o) ==
    \E i \in 1..Len(event_log) :
        /\ event_log[i].event = "TokenReward"
        /\ event_log[i].player = o.caller
        /\ event_log[i].reward_type = OpTag(o)
        /\ event_log[i].race_id = OpId(o)

\* The smallest rate of the table that is not zero (0 if all are).
MinNonZeroRate(rates) ==
    LET nz == {rates[f] : f \in {g \in RateFields : rates[g] > 0}} IN
    IF nz = {} THEN 0 ELSE CHOOSE m \in nz : \A r \in nz : m <= r

\* C21 as stated: an award already paid to the caller under the same id pays
\* again whenever the vault covers its amount.
C21_Original ==
    [][(Initialized /\ IsAward(op') /\ Replayed(op')
        /\ ComputedAmount(Rates, op').ok
        /\ ComputedAmount(Rates, op').v <= VaultAmount)
       => /\ Moves(ComputedAmount(Rates, op').v)
          /\ AppendsOne]_vars

\* C21 (no replay guard), amended.  Whether an award succeeds does not depend
\* on the caller or on what was paid before: any wallet's award, also one
\* already paid to it under the same id, succeeds exactly when the vault
\* covers the amount and total_distributed + amount fits the unsigned range,
\* and then pays the whole amount again and logs it again.
C21_NoReplayGuard ==
    [][(Initialized /\ IsAward(op') /\ ComputedAmount(Rates, op').ok)
       => LET A == ComputedAmount(Rates, op').v IN
          /\ (result' = "Ok") <=> (A <= VaultAmount /\ A <= U64_MAX - TotalDistributed)
          /\ result' = "Ok"
               => /\ Moves(A)
                  /\ AppendsOne
                  /\ event_log'[Len(event_log')]
                        = TokenReward(op'.caller, A, OpTag(op'), OpId(op'))]_vars

\* A wallet other than the authority was paid the same challenge twice, and
\* the vault is left with less than the smallest rate that is not zero.
C21_Witness ==
    /\ op.name = "award_challenge_tokens" /\ result = "Ok"
    /\ op.caller # Authority
    /\ Len(event_log) = 2
    /\ event_log[1] = event_log[2]
    /\ event_log[2] = TokenReward(op.caller, 100000000, "DailyChallenge", 1)
    /\ Rates = DefaultRates
    /\ VaultAmount < MinNonZeroRate(Rates)

\* The sum of the amounts of all token accounts of the mint: the vault, the
\* authority's account and every player's.
RECURSIVE TotalHeld(_)
TotalHeld(accounts) ==
    IF DOMAIN accounts = {} THEN 0
    ELSE LET p == CHOOSE q \in DOMAIN accounts : TRUE IN
         accounts[p] + TotalHeld([q \in DOMAIN accounts \ {p} |-> accounts[q]])

\* C22 (value conservation).  Every instruction of the program leaves the
\* sum of the vault, the authority's balance and all players' balances as it
\* was, except a successful spend_tokens(amount), which lowers it by exactly
\* amount; no instruction raises it.
C22_ValueConservation ==
    [][op'.name \in InstructionNames
       => /\ TotalHeld(token_accounts')
               = TotalHeld(token_accounts)
                 - (IF op'.name = "spend_tokens" /\ result' = "Ok"
                    THEN op'.amount ELSE 0)
          /\ TotalHeld(token_accounts') <= TotalHeld(token_accounts)]_vars

\* After the vault was funded and paid a reward, a spend took its amount out
\* of the sum, which is the rest of what was minted, spread over the vault
\* and the wallets.
C22_Witness ==
    /\ op.name = "spend_tokens" /\ result = "Ok"
    /\ funds >= 1 /\ TotalDistributed > 0
    /\ TotalHeld(token_accounts) = U64_MAX - op.amount
    /\ TotalHeld(token_accounts) = supply
    /\ VaultAmount > 0 /\ VaultAmount < TotalHeld(token_accounts)


==============================================================================
